---- MODULE Spec2Model ----
(***************************************************************************)
(* conditional_join of janitor/functions/conditional_join.py as a state    *)
(* machine: one call, from the argument checks to the returned table.      *)
(*                                                                         *)
(* A table is a record                                                     *)
(*   kind    "DataFrame" or "Series"                                       *)
(*   name    the name of a Series ("" when it has none)                    *)
(*   index   the row labels, a sequence                                    *)
(*   columns the column labels, each a tuple of strings (one string for    *)
(*           flat columns, two and more for MultiIndex columns)            *)
(*   dtypes  the dtype family of each column                               *)
(*   rows    the rows, each a sequence of values, one per column           *)
(* Values are small naturals; NaN stands for every null (NaN, NaT, None).  *)
(* Positions and RangeIndex labels are 0-based as in the source, TLA+      *)
(* sequences are 1-based: label k of a re-indexed table is rows[k + 1].    *)
(***************************************************************************)
EXTENDS Integers, Sequences, FiniteSets, Bags, TLC

\* ------------------------------------------------------------ bounds

\* Non-null values of a column are 0 .. MaxVal.
MaxVal == 1

\* A caller's table has 1 .. MaxRows rows (0 rows too, for the empty-table check).
MaxRows == 2

\* In a call with two conditions the two tables have at most MaxCross row pairs.
MaxCross == 2

\* A column handed to a Range Matcher in a direct call has 1 .. MaxLen rows.
MaxLen == 3

\* Its non-null values are 0 .. MaxKey.
MaxKey == 2

\* The null value of a column (numpy NaN / NaT / None).
NaN == -1

\* ------------------------------------------------------------ operators

EQ == "=="
NE == "!="
LT == "<"
LE == "<="
GT == ">"
GE == ">="

\* class _JoinOperator
JoinOperator == {GT, LT, GE, LE, EQ, NE}

\* class _JoinTypes
JoinTypes == {"inner", "left", "right"}

less_than_join_types == {LT, LE}

greater_than_join_types == {GT, GE}

\* operator_map[op](a, b) on numpy scalars: every comparison with NaN is False,
\* except `!=`, which is True.
operator_map(op, a, b) ==
  IF a = NaN \/ b = NaN THEN op = NE
  ELSE CASE op = EQ -> a = b
         [] op = NE -> a # b
         [] op = LT -> a < b
         [] op = LE -> a <= b
         [] op = GT -> a > b
         [] op = GE -> a >= b

\* ------------------------------------------------------------ sequences

Range(s) == {s[k] : k \in DOMAIN s}

\* s[mask]: the elements of s at the positions where keep[k] holds.
RECURSIVE Compress(_, _)
Compress(s, keep) ==
  IF s = <<>> THEN <<>>
  ELSE (IF Head(keep) THEN <<Head(s)>> ELSE <<>>) \o Compress(Tail(s), Tail(keep))

\* np.cumsum
RECURSIVE CumSumFrom(_, _)
CumSumFrom(s, acc) ==
  IF s = <<>> THEN <<>>
  ELSE <<acc + Head(s)>> \o CumSumFrom(Tail(s), acc + Head(s))

cumsum(s) == CumSumFrom(s, 0)

\* np.repeat(s, counts): s[k] repeated counts[k] times.
RECURSIVE repeat(_, _)
repeat(s, counts) ==
  IF s = <<>> THEN <<>>
  ELSE [k \in 1..Head(counts) |-> Head(s)] \o repeat(Tail(s), Tail(counts))

\* np.concatenate of a list of arrays
RECURSIVE concatenate(_)
concatenate(ss) ==
  IF ss = <<>> THEN <<>> ELSE Head(ss) \o concatenate(Tail(ss))

\* arr[positions] with 0-based positions
TakeAt(arr, positions) == [k \in DOMAIN positions |-> arr[positions[k] + 1]]

\* arr[lo:hi] with 0-based half-open bounds
Slice(arr, lo, hi) == SubSeq(arr, lo + 1, hi)

\* ------------------------------------------------------------ Series

\* A Series: parallel sequences of row labels and values.
Series(index, values) == [index |-> index, values |-> values]

hasnans(s) == \E k \in DOMAIN s.values : s.values[k] = NaN

\* Series.dropna()
dropna(s) ==
  LET keep == [k \in DOMAIN s.values |-> s.values[k] # NaN]
  IN  Series(Compress(s.index, keep), Compress(s.values, keep))

\* Series.is_monotonic_increasing
is_monotonic_increasing(s) ==
  \A k \in 1..(Len(s.values) - 1) : s.values[k] <= s.values[k + 1]

\* Insert (label, value) behind every element that is <= value: the step of a
\* stable insertion sort.
RECURSIVE InsertSorted(_, _, _)
InsertSorted(s, lab, val) ==
  IF s.values = <<>> \/ val < Head(s.values)
  THEN Series(<<lab>> \o s.index, <<val>> \o s.values)
  ELSE LET rest == InsertSorted(Series(Tail(s.index), Tail(s.values)), lab, val)
       IN  Series(<<Head(s.index)>> \o rest.index, <<Head(s.values)>> \o rest.values)

\* Series.sort_values() on a Series without nulls: ascending, ties in their
\* original order.
RECURSIVE SortPrefix(_, _)
SortPrefix(s, n) ==
  IF n = 0 THEN Series(<<>>, <<>>)
  ELSE InsertSorted(SortPrefix(s, n - 1), s.index[n], s.values[n])

sort_values(s) == SortPrefix(s, Len(s.values))

\* Series.min() > other.max(), both skipping nulls; False when either side has
\* no non-null value (the comparison is then with NaN).
MinGtMax(a, b) ==
  LET av == Range(a.values) \ {NaN}
      bv == Range(b.values) \ {NaN}
  IN  /\ av # {}
      /\ bv # {}
      /\ \A x \in av : \A z \in bv : x > z

\* np.searchsorted(arr, v, side): the number of elements of the sorted arr
\* that are < v (side="left") or <= v (side="right").
searchsorted(arr, v, side) ==
  IF side = "left"
  THEN Cardinality({k \in DOMAIN arr : arr[k] < v})
  ELSE Cardinality({k \in DOMAIN arr : arr[k] <= v})

\* ------------------------------------------------------------ Range Matchers

\* What a matcher or combiner returns: None, a final pair set (left_index,
\* right_index), or, while more conditions remain, the 4-tuple (left_index,
\* right_index, search_indices, indices).
None == [kind |-> "None", left_index |-> <<>>, right_index |-> <<>>,
         search_indices |-> <<>>, indices |-> <<>>]

Pairs(l, r) == [kind |-> "pairs", left_index |-> l, right_index |-> r,
                search_indices |-> <<>>, indices |-> <<>>]

Bounds(l, r, s, i) == [kind |-> "bounds", left_index |-> l, right_index |-> r,
                       search_indices |-> s, indices |-> i]

\* _interval_ranges: the cumulative-sum construction of the runs
\* indices[k], ..., right[k] - 1. `ids` is 0-based in the source: position p of
\* the source is ids[p + 1] here. A fancy-indexed assignment with a repeated
\* position keeps the last value written.
IdsAt(indices, right, cum_length, p) ==
  LET W == {j \in 1..(Len(indices) - 1) : cum_length[j] = p - 1}
  IN  IF W # {}
      THEN LET j == CHOOSE j \in W : \A i \in W : i <= j
           IN  indices[j + 1] - right[j] + 1
      ELSE IF p = 1 THEN indices[1] ELSE 1

Ids(indices, right, cum_length) ==
  [p \in 1..cum_length[Len(cum_length)] |-> IdsAt(indices, right, cum_length, p)]

\* The runs with their positions in descending order, the last run first.
_interval_ranges_descending(indices, right) ==
  LET ids == cumsum(Ids(indices, right,
                        cumsum([k \in DOMAIN indices |-> right[k] - indices[k]])))
  IN  [p \in DOMAIN ids |-> ids[Len(ids) + 1 - p]]

_interval_ranges(indices, right) ==
  cumsum(Ids(indices, right, cumsum([k \in DOMAIN indices |-> right[k] - indices[k]])))

\* The left rows a matcher still considers: their labels, their values and
\* their search_indices.
Rows(index, values, search) == [index |-> index, values |-> values, search |-> search]

\* left_c[~rows_equal], left_index[~rows_equal], search_indices[~rows_equal]
KeepRows(rows, keep) ==
  Rows(Compress(rows.index, keep), Compress(rows.values, keep),
       Compress(rows.search, keep))

\* The right column as a matcher searches it: nulls dropped, then sorted
\* ascending unless it is already.
SearchColumn(right_c) ==
  LET r == IF hasnans(right_c) THEN dropna(right_c) ELSE right_c
  IN  IF ~is_monotonic_increasing(r) THEN sort_values(r) ELSE r

\* if left_c.hasnans: left_c = left_c.dropna()
NoNulls(left_c) == IF hasnans(left_c) THEN dropna(left_c) ELSE left_c

\* search_indices = right_c.searchsorted(left_c, side=side)
Searched(left_c, arr, side) ==
  Rows(left_c.index, left_c.values,
       [k \in DOMAIN left_c.values |-> searchsorted(arr, left_c.values[k], side)])

\* The final pairs of a matcher: every left label repeated over its run
\* [lo, hi) of positions in the sorted right column.
Expand(left_index, right_index, lo, hi) ==
  Pairs(repeat(left_index, [k \in DOMAIN lo |-> hi[k] - lo[k]]),
        TakeAt(right_index, _interval_ranges(lo, hi)))

\* _less_than_indices: the rows whose search index is len_right are dropped.
LessDrop(rows, len_right) ==
  KeepRows(rows, [k \in DOMAIN rows.search |-> rows.search[k] # len_right])

\* _less_than_indices, `if strict:`: a row whose value equals the right value
\* at its search index takes the index of searchsorted(side="right").
LessStrict(rows, arr) ==
  Rows(rows.index, rows.values,
       [k \in DOMAIN rows.search |->
          IF rows.values[k] = arr[rows.search[k] + 1]
          THEN searchsorted(arr, rows.values[k], "right")
          ELSE rows.search[k]])

\* _less_than_indices from `indices = np.repeat(len_right, ...)` on.
LessResult(rows, right_c, len_conditions) ==
  IF rows.search = <<>> THEN None
  ELSE IF len_conditions > 1
  THEN Bounds(rows.index, right_c.index, rows.search,
              [k \in DOMAIN rows.search |-> Len(right_c.values)])
  ELSE Expand(rows.index, right_c.index, rows.search,
              [k \in DOMAIN rows.search |-> Len(right_c.values)])

\* _less_than_indices from the first `if search_indices.size == 0` on.
LessTies(rows, right_c, strict, len_conditions) ==
  IF rows.search = <<>> THEN None
  ELSE IF strict
  THEN LessResult(LessDrop(LessStrict(rows, right_c.values), Len(right_c.values)),
                  right_c, len_conditions)
  ELSE LessResult(rows, right_c, len_conditions)

\* _less_than_indices after the null-dropping and the sorting.
LessSearch(left_c, right_c, strict, len_conditions) ==
  LessTies(LessDrop(Searched(left_c, right_c.values, "left"), Len(right_c.values)),
           right_c, strict, len_conditions)

_less_than_indices(left_c, right_c, strict, len_conditions) ==
  IF MinGtMax(left_c, right_c) THEN None
  ELSE LessSearch(NoNulls(left_c), SearchColumn(right_c), strict, len_conditions)

\* _greater_than_indices: the rows whose search index is below 1 are dropped.
GreaterDrop(rows) ==
  KeepRows(rows, [k \in DOMAIN rows.search |-> ~(rows.search[k] < 1)])

\* replacements of _greater_than_indices for the value v
Replacement(arr, v) ==
  IF searchsorted(arr, v, "left") = Len(arr)
  THEN searchsorted(arr, v, "left") - 1
  ELSE searchsorted(arr, v, "left")

\* GreaterStrict without the replacement: ties stay in the range.
GreaterStrict_ties(rows, arr) == rows

\* _greater_than_indices, `if strict:`: a row whose value equals the right
\* value below its search index takes its replacement.
GreaterStrict(rows, arr) ==
  Rows(rows.index, rows.values,
       [k \in DOMAIN rows.search |->
          IF rows.values[k] = arr[rows.search[k]]
          THEN Replacement(arr, rows.values[k])
          ELSE rows.search[k]])

\* _greater_than_indices from `indices = np.zeros(...)` on.
GreaterResult(rows, right_c, len_conditions) ==
  IF rows.search = <<>> THEN None
  ELSE IF len_conditions > 1
  THEN Bounds(rows.index, right_c.index, rows.search,
              [k \in DOMAIN rows.search |-> 0])
  ELSE Expand(rows.index, right_c.index, [k \in DOMAIN rows.search |-> 0],
              rows.search)

\* _greater_than_indices from the first `if search_indices.size == 0` on.
GreaterTies(rows, right_c, strict, len_conditions) ==
  IF rows.search = <<>> THEN None
  ELSE IF strict
  THEN GreaterResult(GreaterDrop(GreaterStrict(rows, right_c.values)),
                     right_c, len_conditions)
  ELSE GreaterResult(rows, right_c, len_conditions)

\* _greater_than_indices after the null-dropping and the sorting.
GreaterSearch(left_c, right_c, strict, len_conditions) ==
  GreaterTies(GreaterDrop(Searched(left_c, right_c.values, "right")),
              right_c, strict, len_conditions)

_greater_than_indices(left_c, right_c, strict, len_conditions) ==
  IF MinGtMax(right_c, left_c) THEN None
  ELSE GreaterSearch(NoNulls(left_c), SearchColumn(right_c), strict, len_conditions)

\* _MergeOperation(...)._get_join_indexers() of pandas, an inner hash join on
\* the key values: positional (0-based) pairs, the key groups in the order of
\* their first appearance on the left, and inside a group the left rows and
\* then the right rows in their order of appearance.
JoinRow(lkeys, rkeys, i) ==
  Compress([j \in DOMAIN rkeys |-> <<i - 1, j - 1>>],
           [j \in DOMAIN rkeys |-> rkeys[j] = lkeys[i]])

JoinGroup(lkeys, rkeys, k0) ==
  concatenate([i \in DOMAIN lkeys |->
                 IF lkeys[i] = lkeys[k0] THEN JoinRow(lkeys, rkeys, i) ELSE <<>>])

FirstOfKey(lkeys) ==
  Compress([k \in DOMAIN lkeys |-> k],
           [k \in DOMAIN lkeys |-> \A j \in 1..(k - 1) : lkeys[j] # lkeys[k]])

JoinGroups(lkeys, rkeys, firsts) ==
  concatenate([g \in DOMAIN firsts |-> JoinGroup(lkeys, rkeys, firsts[g])])

get_join_indexers(lkeys, rkeys) == JoinGroups(lkeys, rkeys, FirstOfKey(lkeys))

\* _equal_indices from `if not left_index.size > 0` on; joined holds the
\* positional pairs.
EqualResult(left_c, right_c, len_conditions, joined) ==
  IF ~(Len(joined) > 0) THEN None
  ELSE IF len_conditions > 1
  THEN Pairs([k \in DOMAIN joined |-> joined[k][1]],
             [k \in DOMAIN joined |-> joined[k][2]])
  ELSE Pairs(TakeAt(left_c.index, [k \in DOMAIN joined |-> joined[k][1]]),
             TakeAt(right_c.index, [k \in DOMAIN joined |-> joined[k][2]]))

\* _equal_indices; the values of left_c and right_c are scalars (a Series) or
\* tuples (the key columns of a DataFrame).
_equal_indices(left_c, right_c, len_conditions) ==
  EqualResult(left_c, right_c, len_conditions,
              get_join_indexers(left_c.values, right_c.values))

\* NotEqualResult with `or` for `and`: None when either side is empty.
NotEqualResult_or(lt, gt) ==
  IF ~(Len(lt.left_index) > 0) \/ ~(Len(gt.left_index) > 0) THEN None
  ELSE Pairs(lt.left_index \o gt.left_index, lt.right_index \o gt.right_index)

\* _not_equal_indices from `if (not lt_left.size > 0) and ...` on.
NotEqualResult(lt, gt) ==
  IF ~(Len(lt.left_index) > 0) /\ ~(Len(gt.left_index) > 0) THEN None
  ELSE Pairs(lt.left_index \o gt.left_index, lt.right_index \o gt.right_index)

\* _not_equal_indices
_not_equal_indices(left_c, right_c) ==
  NotEqualResult(_less_than_indices(left_c, right_c, TRUE, 1),
                 _greater_than_indices(left_c, right_c, TRUE, 1))

\* Strict with the strictness lost: `<`, `>` and `!=` searched like `<=`, `>=`.
Strict_never(op) == FALSE

\* strict of _generic_func_cond_join
Strict(op) == op \in {GT, LT, NE}

\* _generic_func_cond_join
_generic_func_cond_join(left_c, right_c, op, len_conditions) ==
  IF op \in less_than_join_types
  THEN _less_than_indices(left_c, right_c, Strict(op), len_conditions)
  ELSE IF op \in greater_than_join_types
  THEN _greater_than_indices(left_c, right_c, Strict(op), len_conditions)
  ELSE IF op = NE
  THEN _not_equal_indices(left_c, right_c)
  ELSE _equal_indices(left_c, right_c, len_conditions)

\* ------------------------------------------------------------ tables

\* The position of the column a condition names (flat columns: the label is
\* the 1-tuple of the name).
ColPos(t, name) == CHOOSE c \in DOMAIN t.columns : t.columns[c] = <<name>>

\* The position of the row with label lab (the labels of a working table are
\* unique).
RowPos(t, lab) == CHOOSE k \in DOMAIN t.index : t.index[k] = lab

\* df[name]
Col(t, name) ==
  Series(t.index, [k \in DOMAIN t.rows |-> t.rows[k][ColPos(t, name)]])

\* df.loc[labels]: the rows with these labels, in the order of labels.
LocRows(t, labels) ==
  [t EXCEPT !.index = labels,
            !.rows  = [k \in DOMAIN labels |-> t.rows[RowPos(t, labels[k])]]]

\* df.loc[labels, name]
Loc(t, labels, name) == Col(LocRows(t, labels), name)

\* df.loc[:, [names]]: a Series of key tuples, one per row.
KeyCols(t, names) ==
  Series(t.index,
         [k \in DOMAIN t.rows |->
            [c \in DOMAIN names |-> t.rows[k][ColPos(t, names[c])]]])

\* DataFrame.isna().any(axis=None) on key tuples
isna_any(s) ==
  \E k \in DOMAIN s.values : \E c \in DOMAIN s.values[k] : s.values[k][c] = NaN

\* DataFrame.dropna() on key tuples: drop the rows with a null in any column.
dropna_rows(s) ==
  LET keep == [k \in DOMAIN s.values |->
                 \A c \in DOMAIN s.values[k] : s.values[k][c] # NaN]
  IN  Series(Compress(s.index, keep), Compress(s.values, keep))

\* ------------------------------------------------------------ combiners

IsEq(cond) == cond[3] = EQ

IsNotEq(cond) == cond[3] # EQ

\* left_on and right_on of a list of conditions
LeftOn(conds) == [c \in DOMAIN conds |-> conds[c][1]]

RightOn(conds) == [c \in DOMAIN conds |-> conds[c][2]]

less_greater_types == less_than_join_types \cup greater_than_join_types

\* The mask of `for left_on, right_on, op in rest` in the combiners that look
\* the candidate rows up by label: the AND over rest of
\* op(df.loc[df_index, left_on], right.loc[right_index, right_on]).
LabelMask(df_0, right_0, rest, df_index, right_index) ==
  [k \in DOMAIN df_index |->
     \A c \in DOMAIN rest :
        operator_map(rest[c][3],
                     Loc(df_0, df_index, rest[c][1]).values[k],
                     Loc(right_0, right_index, rest[c][2]).values[k])]

\* The same mask in _multiple_conditional_join_eq, which looks the candidate
\* rows up by position: df[left_on][df_index], right[right_on][right_index].
PositionMask(df_0, right_0, rest, df_index, right_index) ==
  [k \in DOMAIN df_index |->
     \A c \in DOMAIN rest :
        operator_map(rest[c][3],
                     Col(df_0, rest[c][1]).values[df_index[k] + 1],
                     Col(right_0, rest[c][2]).values[right_index[k] + 1])]

\* mask.any()
any(mask) == \E k \in DOMAIN mask : mask[k]

\* The key columns of the `==` conditions: a Series for one condition, the
\* rows of a DataFrame as tuples for several.
EqKeys(t, names) ==
  IF Len(names) = 1 THEN Col(t, names[1]) ELSE KeyCols(t, names)

\* `# get rid of nulls, if any` of _multiple_conditional_join_eq: the table
\* without the rows that have a null in a key column.
EqRows(t, names) ==
  IF Len(names) = 1
  THEN IF hasnans(Col(t, names[1]))
       THEN LocRows(t, dropna(Col(t, names[1])).index) ELSE t
  ELSE IF isna_any(KeyCols(t, names))
       THEN LocRows(t, dropna_rows(KeyCols(t, names)).index) ELSE t

\* `return df_index[mask], right_index[mask]`: the positions in the tables
\* without the null keys, not the labels.
EqFilter_positions(df_0, right_0, df_index, right_index, mask) ==
  IF ~any(mask) THEN None
  ELSE Pairs(Compress(df_index, mask), Compress(right_index, mask))

\* _multiple_conditional_join_eq from `if not mask.any()` on.
EqFilter(df_0, right_0, df_index, right_index, mask) ==
  IF ~any(mask) THEN None
  ELSE Pairs(TakeAt(df_0.index, Compress(df_index, mask)),
             TakeAt(right_0.index, Compress(right_index, mask)))

\* _multiple_conditional_join_eq from `if result is None` on; df_0 and right_0
\* are the tables without the null keys.
EqMask(df_0, right_0, rest, result) ==
  IF result.kind = "None" THEN None
  ELSE IF rest = <<>>
  THEN Pairs(TakeAt(df_0.index, result.left_index),
             TakeAt(right_0.index, result.right_index))
  ELSE EqFilter(df_0, right_0, result.left_index, result.right_index,
                PositionMask(df_0, right_0, rest, result.left_index,
                             result.right_index))

\* _multiple_conditional_join_eq from `# get join indices` on.
EqJoin(df_0, right_0, eq_cond, rest) ==
  EqMask(df_0, right_0, rest,
         _generic_func_cond_join(EqKeys(df_0, LeftOn(eq_cond)),
                                 EqKeys(right_0, RightOn(eq_cond)), EQ, 2))

\* _multiple_conditional_join_eq
_multiple_conditional_join_eq(df_0, right_0, conds) ==
  EqJoin(EqRows(df_0, LeftOn(SelectSeq(conds, IsEq))),
         EqRows(right_0, RightOn(SelectSeq(conds, IsEq))),
         SelectSeq(conds, IsEq), SelectSeq(conds, IsNotEq))

\* `if not mask.any(): return None; return df_index[mask], right_index[mask]`
Filter(df_index, right_index, mask) ==
  IF ~any(mask) THEN None
  ELSE Pairs(Compress(df_index, mask), Compress(right_index, mask))

\* _multiple_conditional_join_ne from `if result is None` on.
NeMask(df_0, right_0, rest, result) ==
  IF result.kind = "None" THEN None
  ELSE Filter(result.left_index, result.right_index,
              LabelMask(df_0, right_0, rest, result.left_index, result.right_index))

\* _multiple_conditional_join_ne
_multiple_conditional_join_ne(df_0, right_0, conds) ==
  NeMask(df_0, right_0, Tail(conds),
         _generic_func_cond_join(Col(df_0, conds[1][1]), Col(right_0, conds[1][2]),
                                 conds[1][3], 1))

Narrowed(none, df_index, right_index) ==
  [none |-> none, df_index |-> df_index, right_index |-> right_index]

\* The first loop of _multiple_conditional_join_le_lt, from condition i on:
\* every ordering condition narrows (df_index, right_index), a `!=` condition
\* is skipped. none is TRUE when a matcher returned None.
RECURSIVE Narrow(_, _, _, _, _)
NarrowStep(df_0, right_0, conds, i, result) ==
  IF result.kind = "None" THEN Narrowed(TRUE, <<>>, <<>>)
  ELSE Narrow(df_0, right_0, conds, i + 1,
              Narrowed(FALSE, result.left_index, result.right_index))

Narrow(df_0, right_0, conds, i, n) ==
  IF i > Len(conds) THEN n
  ELSE IF conds[i][3] \notin less_greater_types /\ conds[i][3] = NE
  THEN Narrow(df_0, right_0, conds, i + 1, n)
  ELSE NarrowStep(df_0, right_0, conds, i,
                  _generic_func_cond_join(Loc(df_0, n.df_index, conds[i][1]),
                                          Loc(right_0, n.right_index, conds[i][2]),
                                          conds[i][3], 2))

\* The positions of the ordering conditions.
Orderings(conds) == {i \in DOMAIN conds : conds[i][3] \in less_greater_types}

\* lt_gt after the first loop: the loop assigns it at every ordering
\* condition, so the last one stays.
LtGt(conds) == conds[CHOOSE i \in Orderings(conds) : \A j \in Orderings(conds) : j <= i]

\* list.remove(x): without the first element equal to x.
RECURSIVE Remove(_, _)
Remove(s, x) ==
  IF s = <<>> THEN <<>>
  ELSE IF Head(s) = x THEN Tail(s)
  ELSE <<Head(s)>> \o Remove(Tail(s), x)

\* The conditions in the order _multiple_conditional_join_le_lt applies them:
\* when the first one is no ordering condition, lt_gt is moved to the front.
Reordered(conds) ==
  IF conds[1][3] \notin less_greater_types
  THEN <<LtGt(conds)>> \o Remove(conds, LtGt(conds))
  ELSE conds

\* low, high of _multiple_conditional_join_le_lt
Low(op, result) ==
  IF op \in less_than_join_types THEN result.search_indices ELSE result.indices

High(op, result) ==
  IF op \in less_than_join_types THEN result.indices ELSE result.search_indices

\* One pass of the loop over zip(df_index, left_c, low, high): indexer[mask],
\* the right labels of the run [lo, hi) whose value satisfies op against val.
ScanRow(val, lo, hi, right_c, right_index, op) ==
  Compress(Slice(right_index, lo, hi),
           [j \in 1..(hi - lo) |-> operator_map(op, val, right_c[lo + j])])

\* The loop: for every left row its kept right labels (empty when the pass
\* ends in `continue`).
Scan(left_c, low, high, right_c, right_index, op) ==
  [k \in DOMAIN left_c |->
     ScanRow(left_c[k], low[k], high[k], right_c, right_index, op)]

NonEmpty(kept) == [k \in DOMAIN kept |-> kept[k] # <<>>]

Sizes(kept) == [k \in DOMAIN kept |-> Len(kept[k])]

\* _multiple_conditional_join_le_lt from `if not rest` on.
LeLtMask(df_0, right_0, rest, df_index, right_index) ==
  IF rest = <<>> THEN Pairs(df_index, right_index)
  ELSE Filter(df_index, right_index,
              LabelMask(df_0, right_0, rest, df_index, right_index))

\* _multiple_conditional_join_le_lt from `if not index_df` on; kept is what
\* the loop kept for every row of df_index.
LeLtRest(df_0, right_0, rest, df_index, kept) ==
  IF Compress(df_index, NonEmpty(kept)) = <<>> THEN None
  ELSE LeLtMask(df_0, right_0, rest,
                repeat(Compress(df_index, NonEmpty(kept)),
                       Sizes(Compress(kept, NonEmpty(kept)))),
                concatenate(Compress(kept, NonEmpty(kept))))

\* _multiple_conditional_join_le_lt from the second `if result is None` on.
LeLtSecond(df_0, right_0, ordered, result) ==
  IF result.kind = "None" THEN None
  ELSE LeLtRest(df_0, right_0, Tail(Tail(ordered)), result.left_index,
                Scan(Loc(df_0, result.left_index, ordered[2][1]).values,
                     Low(ordered[1][3], result), High(ordered[1][3], result),
                     Loc(right_0, result.right_index, ordered[2][2]).values,
                     result.right_index, ordered[2][3]))

\* _multiple_conditional_join_le_lt from `# move le,lt,ge,gt to the fore` on.
LeLtFirst(df_0, right_0, ordered, n) ==
  IF n.none THEN None
  ELSE LeLtSecond(df_0, right_0, ordered,
                  _generic_func_cond_join(Loc(df_0, n.df_index, ordered[1][1]),
                                          Loc(right_0, n.right_index, ordered[1][2]),
                                          ordered[1][3], 2))

\* _multiple_conditional_join_le_lt
_multiple_conditional_join_le_lt(df_0, right_0, conds) ==
  LeLtFirst(df_0, right_0, Reordered(conds),
            Narrow(df_0, right_0, conds, 1,
                   Narrowed(FALSE, df_0.index, right_0.index)))

\* ------------------------------------------------------------ type gate

\* The dtype families pandas.api.types tells apart with is_datetime64_dtype,
\* is_integer_dtype, is_float_dtype, is_string_dtype and is_categorical_dtype;
\* "bool" and "timedelta" are dtypes none of the five accepts.
permitted_types == {"datetime", "integer", "float", "string", "categorical"}

Dtypes == permitted_types \cup {"bool", "timedelta"}

\* func(column) for a predicate of permitted_types, named by its family.
IsDtype(func, dtype) == dtype = func

\* _conditional_join_type_check without the test that both columns are of the
\* same family.
_conditional_join_type_check_left_only(left_dtype, right_dtype, op) ==
  IF ~(\E func \in permitted_types : IsDtype(func, left_dtype))
  THEN "ValueError"
  ELSE IF IsDtype("categorical", left_dtype) /\ op # EQ
  THEN "ValueError"
  ELSE IF IsDtype("string", left_dtype) /\ op # EQ
  THEN "ValueError"
  ELSE ""

\* _conditional_join_type_check: "ValueError" when it raises, "" when it
\* returns None.
_conditional_join_type_check(left_dtype, right_dtype, op) ==
  IF ~(\E func \in permitted_types : IsDtype(func, left_dtype))
  THEN "ValueError"
  ELSE IF ~(\E func \in permitted_types :
              IsDtype(func, left_dtype) /\ IsDtype(func, right_dtype))
  THEN "ValueError"
  ELSE IF IsDtype("categorical", left_dtype) /\ op # EQ
  THEN "ValueError"
  ELSE IF IsDtype("string", left_dtype) /\ op # EQ
  THEN "ValueError"
  ELSE ""

\* _check_operator accepting every operator.
_check_operator_any(op) == ""

\* _check_operator
_check_operator(op) == IF op \notin JoinOperator THEN "ValueError" ELSE ""

\* ------------------------------------------------------------ Result Assembler

Frame(index, columns, dtypes, rows) ==
  [kind |-> "DataFrame", name |-> "", index |-> index, columns |-> columns,
   dtypes |-> dtypes, rows |-> rows]

\* No table: the value of a name that is bound to no table (yet).
NoFrame == [kind |-> "None", name |-> "", index |-> <<>>, columns |-> <<>>,
            dtypes |-> <<>>, rows |-> <<>>]

\* pd.RangeIndex(start=0, stop=n)
RangeIndex(n) == [k \in 1..n |-> k - 1]

\* t.columns = pd.MultiIndex.from_product([[side], t.columns])
Namespace(t, side) ==
  [t EXCEPT !.columns = [c \in DOMAIN t.columns |-> <<side>> \o t.columns[c]]]

\* float if dtype.kind == "i" else dtype; also the upcast pandas makes when a
\* join puts nulls into an integer column.
Widen(dtype) == IF dtype = "integer" THEN "float" ELSE dtype

Nulls(t) == [c \in DOMAIN t.columns |-> NaN]

\* What a call returns: the table, and for every row of it the labels
\* (left label, right label) of the rows of the two re-indexed tables it was
\* made of, NaN for the side that is null-filled. origin is not part of the
\* returned DataFrame (reset_index(drop=True) drops the labels); it is kept to
\* state the properties of the row order.
Returned(frame, origin) == [frame |-> frame, origin |-> origin]

NoReturn == Returned(NoFrame, <<>>)

\* _create_conditional_join_empty_frame with the integer columns made float
\* for every `how`, 'inner' too.
_create_conditional_join_empty_frame_float(df_0, right_0, how_0) ==
  LET df_n    == Namespace(df_0, "left")
      right_n == Namespace(right_0, "right")
      ldtypes == [c \in DOMAIN df_n.dtypes |-> Widen(df_n.dtypes[c])]
      rdtypes == [c \in DOMAIN right_n.dtypes |-> Widen(right_n.dtypes[c])]
  IN  IF how_0 = "inner"
      THEN Returned(Frame(<<>>, df_n.columns \o right_n.columns, ldtypes \o rdtypes, <<>>),
                    <<>>)
      ELSE IF how_0 = "left"
      THEN Returned(
             Frame(df_n.index, df_n.columns \o right_n.columns, ldtypes \o rdtypes,
                   [k \in DOMAIN df_n.rows |-> df_n.rows[k] \o Nulls(right_n)]),
             [k \in DOMAIN df_n.rows |-> <<df_n.index[k], NaN>>])
      ELSE Returned(
             Frame(right_n.index, df_n.columns \o right_n.columns, ldtypes \o rdtypes,
                   [k \in DOMAIN right_n.rows |-> Nulls(df_n) \o right_n.rows[k]]),
             [k \in DOMAIN right_n.rows |-> <<NaN, right_n.index[k]>>])

\* _create_conditional_join_empty_frame
_create_conditional_join_empty_frame(df_0, right_0, how_0) ==
  LET df_n    == Namespace(df_0, "left")
      right_n == Namespace(right_0, "right")
  IN  IF how_0 = "inner"
      THEN Returned(Frame(<<>>, df_n.columns \o right_n.columns,
                          df_n.dtypes \o right_n.dtypes, <<>>), <<>>)
      ELSE IF how_0 = "left"
      THEN Returned(
             Frame(df_n.index, df_n.columns \o right_n.columns,
                   df_n.dtypes \o [c \in DOMAIN right_n.dtypes |-> Widen(right_n.dtypes[c])],
                   [k \in DOMAIN df_n.rows |-> df_n.rows[k] \o Nulls(right_n)]),
             [k \in DOMAIN df_n.rows |-> <<df_n.index[k], NaN>>])
      ELSE IF how_0 = "right"
      THEN Returned(
             Frame(right_n.index, df_n.columns \o right_n.columns,
                   [c \in DOMAIN df_n.dtypes |-> Widen(df_n.dtypes[c])] \o right_n.dtypes,
                   [k \in DOMAIN right_n.rows |-> Nulls(df_n) \o right_n.rows[k]]),
             [k \in DOMAIN right_n.rows |-> <<NaN, right_n.index[k]>>])
      ELSE NoReturn

\* (a[i], b[i]) comes before (a[j], b[j]) in the order of np.lexsort((b, a)).
LexLess(a, b, i, j) == a[i] < a[j] \/ (a[i] = a[j] /\ b[i] < b[j])

\* np.lexsort((b, a)): the positions (1-based here) of a stable sort by a, then
\* by b.
RECURSIVE LexInsert(_, _, _, _)
LexInsert(sorter, a, b, i) ==
  IF sorter = <<>> \/ LexLess(a, b, i, Head(sorter))
  THEN <<i>> \o sorter
  ELSE <<Head(sorter)>> \o LexInsert(Tail(sorter), a, b, i)

RECURSIVE LexPrefix(_, _, _)
LexPrefix(a, b, n) ==
  IF n = 0 THEN <<>> ELSE LexInsert(LexPrefix(a, b, n - 1), a, b, n)

lexsort(b, a) == LexPrefix(a, b, Len(a))

\* arr[sorter]
Take(arr, sorter) == [k \in DOMAIN sorter |-> arr[sorter[k]]]

\* SortedPairs without `right_index = right_index[sorter]`.
SortedPairs_left_only(left_index, right_index, sort) ==
  IF sort
  THEN Pairs(Take(left_index, lexsort(right_index, left_index)), right_index)
  ELSE Pairs(left_index, right_index)

\* The pair sequences after the `if sort_by_appearance:` block of
\* _create_conditional_join_frame.
SortedPairs(left_index, right_index, sort) ==
  IF sort
  THEN LET sorter == lexsort(right_index, left_index)
       IN  Pairs(Take(left_index, sorter), Take(right_index, sorter))
  ELSE Pairs(left_index, right_index)

\* OuterJoin as an inner join: the rows of `keep` without a match are left out.
OuterJoin_inner(keep_index, key) ==
  concatenate([k \in DOMAIN keep_index |->
     Compress([j \in DOMAIN key |-> <<k, j>>],
              [j \in DOMAIN key |-> key[j] = keep_index[k]])])

\* df.join(other, how="left", sort=False) on the index, the labels of `keep`
\* unique and those of `other` given by key: for every row of `keep`, in its
\* order, one entry per row of `other` with that label, in their order, or one
\* entry with position 0 when there is none. An entry is <<position in keep,
\* position in other>>.
OuterJoin(keep_index, key) ==
  concatenate([k \in DOMAIN keep_index |->
     LET hits == Compress([j \in DOMAIN key |-> <<k, j>>],
                          [j \in DOMAIN key |-> key[j] = keep_index[k]])
     IN  IF hits = <<>> THEN << <<k, 0>> >> ELSE hits])

\* _create_conditional_join_frame
_create_conditional_join_frame(df_0, right_0, left_index, right_index, how_0, sort) ==
  LET p       == SortedPairs(left_index, right_index, sort)
      li      == p.left_index
      ri      == p.right_index
      df_n    == Namespace(df_0, "left")
      right_n == Namespace(right_0, "right")
      columns == df_n.columns \o right_n.columns
      LRow(lab) == df_n.rows[RowPos(df_n, lab)]
      RRow(lab) == right_n.rows[RowPos(right_n, lab)]
  IN  IF how_0 = "inner"
      THEN Returned(Frame(RangeIndex(Len(li)), columns,
                          df_n.dtypes \o right_n.dtypes,
                          [k \in DOMAIN li |-> LRow(li[k]) \o RRow(ri[k])]),
                    [k \in DOMAIN li |-> <<li[k], ri[k]>>])
      ELSE IF how_0 = "left"
      THEN LET j     == OuterJoin(df_n.index, li)
               holes == \E k \in DOMAIN j : j[k][2] = 0
           IN  Returned(
                 Frame(RangeIndex(Len(j)), columns,
                       df_n.dtypes \o [c \in DOMAIN right_n.dtypes |->
                          IF holes THEN Widen(right_n.dtypes[c]) ELSE right_n.dtypes[c]],
                       [k \in DOMAIN j |->
                          df_n.rows[j[k][1]] \o
                          (IF j[k][2] = 0 THEN Nulls(right_n) ELSE RRow(ri[j[k][2]]))]),
                 [k \in DOMAIN j |->
                    <<df_n.index[j[k][1]], IF j[k][2] = 0 THEN NaN ELSE ri[j[k][2]]>>])
      ELSE IF how_0 = "right"
      THEN LET j     == OuterJoin(right_n.index, ri)
               holes == \E k \in DOMAIN j : j[k][2] = 0
           IN  Returned(
                 Frame(RangeIndex(Len(j)), columns,
                       [c \in DOMAIN df_n.dtypes |->
                          IF holes THEN Widen(df_n.dtypes[c]) ELSE df_n.dtypes[c]]
                       \o right_n.dtypes,
                       [k \in DOMAIN j |->
                          (IF j[k][2] = 0 THEN Nulls(df_n) ELSE LRow(li[j[k][2]]))
                          \o right_n.rows[j[k][1]]]),
                 [k \in DOMAIN j |->
                    <<IF j[k][2] = 0 THEN NaN ELSE li[j[k][2]], right_n.index[j[k][1]]>>])
      ELSE NoReturn

\* ------------------------------------------------------------ state

VARIABLES
  frames,             \* the tables in memory, by object: "df_arg" and "right_arg"
                      \* are the caller's, "df_copy" and "right_copy" the copies
  df,                 \* the object the name `df` is bound to
  right,              \* the object the name `right` is bound to
  conditions,         \* the conditions of the call
  how,                \* the `how` of the call
  sort_by_appearance, \* the `sort_by_appearance` of the call
  pc,                 \* where the call is: "start", "checked", "typed",
                      \* "matched", "returned" or "raised"
  eq_check,           \* eq_check of _conditional_join_compute
  less_great,         \* less_great of _conditional_join_compute
  result,             \* what the matcher or combiner returned
  out,                \* what the call returned
  exc,                \* the exception the call raised, "" when none
  calls,              \* the components that ran, in order
  unit                \* a direct call of a Range Matcher or of _interval_ranges:
                      \* the function, its arguments and what it returned

vars == <<frames, df, right, conditions, how, sort_by_appearance, pc, eq_check,
          less_great, result, out, exc, calls, unit>>

\* ------------------------------------------------------------ the calls made

Values == {NaN} \cup (0..MaxVal)

LeftNames == <<"a", "b", "c">>

RightNames == <<"x", "y", "z">>

Flat(names, n) == [c \in 1..n |-> <<names[c]>>]

\* The caller's row labels: no RangeIndex, so that re-indexing shows.
LeftIndex(n) == [k \in 1..n |-> 10 * k]

RightIndex(n) == [k \in 1..n |-> 5 + k]

\* All value tables of nc columns and 1 .. n rows.
Tables(nc, n) == UNION {[1..k -> [1..nc -> Values]] : k \in 1..n}

LeftFrame(nc, rows) ==
  Frame(LeftIndex(Len(rows)), Flat(LeftNames, nc), [c \in 1..nc |-> "float"], rows)

RightFrame(nc, rows) ==
  Frame(RightIndex(Len(rows)), Flat(RightNames, nc), [c \in 1..nc |-> "float"], rows)

\* The k-th condition compares the k-th column of the left table with the
\* k-th column of the right table.
OnColumns(ops) == [k \in DOMAIN ops |-> <<LeftNames[k], RightNames[k], ops[k]>>]

\* No direct call: the functions run inside a call of conditional_join.
NoUnit == [func |-> "", left_c |-> Series(<<>>, <<>>), right_c |-> Series(<<>>, <<>>),
           strict |-> FALSE, len_conditions |-> 0, indices |-> <<>>, right |-> <<>>,
           ret |-> None, pc |-> ""]

Start(l, r, conds, h, sort) ==
  /\ frames = [o \in {"df_arg", "right_arg", "df_copy", "right_copy"} |->
                 IF o = "df_arg" THEN l ELSE IF o = "right_arg" THEN r ELSE NoFrame]
  /\ df = "df_arg"
  /\ right = "right_arg"
  /\ conditions = conds
  /\ how = h
  /\ sort_by_appearance = sort
  /\ pc = "start"
  /\ eq_check = FALSE
  /\ less_great = FALSE
  /\ result = None
  /\ out = NoReturn
  /\ exc = ""
  /\ calls = <<>>
  /\ unit = NoUnit

\* Valid calls with one condition on float columns, every `how` and both
\* values of sort_by_appearance.
InitOne ==
  \E l \in Tables(1, MaxRows), r \in Tables(1, MaxRows), op \in JoinOperator,
     h \in JoinTypes, sort \in BOOLEAN :
    Start(LeftFrame(1, l), RightFrame(1, r), OnColumns(<<op>>), h, sort)

\* Valid calls with two conditions on float columns, the cross product of the
\* two tables of at most MaxCross pairs.
InitTwo ==
  \E l \in Tables(2, MaxRows), r \in Tables(2, MaxRows),
     ops \in [1..2 -> JoinOperator] :
    /\ Len(l) * Len(r) <= MaxCross
    /\ Start(LeftFrame(2, l), RightFrame(2, r), OnColumns(ops), "inner", FALSE)

\* Valid calls with three conditions on float columns and one-row tables; the
\* third condition is on the columns of the first or of the second.
InitThree ==
  \E l \in Tables(2, 1), r \in Tables(2, 1), ops \in [1..3 -> JoinOperator],
     c \in 1..2 :
    Start(LeftFrame(2, l), RightFrame(2, r),
          Append(OnColumns(SubSeq(ops, 1, 2)), <<LeftNames[c], RightNames[c], ops[3]>>),
          "inner", FALSE)

\* Calls on one-row tables whose last condition compares columns of every
\* pair of dtype families, alone or behind a condition on float columns.
InitTyped ==
  \E ld \in Dtypes, rd \in Dtypes, op \in JoinOperator, v \in 0..MaxVal,
     h \in JoinTypes, n \in 1..2 :
    Start(Frame(LeftIndex(1), Flat(LeftNames, n),
                [c \in 1..n |-> IF c = n THEN ld ELSE "float"], <<[c \in 1..n |-> 0]>>),
          Frame(RightIndex(1), Flat(RightNames, n),
                [c \in 1..n |-> IF c = n THEN rd ELSE "float"], <<[c \in 1..n |-> v]>>),
          OnColumns([c \in 1..n |-> IF c = n THEN op ELSE LE]), h, FALSE)

\* The left tables of the calls of InitUsage: a good one, an empty one, one
\* with MultiIndex columns.
UsageLeft ==
  { LeftFrame(1, << <<0>> >>),
    LeftFrame(1, <<>>),
    [LeftFrame(1, << <<0>> >>) EXCEPT !.columns = << <<"g", "a">> >>] }

\* The right tables: a good one, an empty one, one with MultiIndex columns, a
\* named Series, an unnamed Series, an empty named Series.
UsageRight ==
  { RightFrame(1, << <<1>> >>),
    RightFrame(1, <<>>),
    [RightFrame(1, << <<1>> >>) EXCEPT !.columns = << <<"g", "x">> >>],
    [RightFrame(1, << <<1>> >>) EXCEPT !.kind = "Series", !.name = "x"],
    [RightFrame(1, << <<1>> >>) EXCEPT !.kind = "Series", !.name = "",
                                       !.columns = << <<"">> >>],
    [RightFrame(1, <<>>) EXCEPT !.kind = "Series", !.name = "x"] }

\* The conditions: none, a good one, tuples of two and of four elements, an
\* operator that is none of the six, alone and behind a good condition, and
\* columns the tables do not have.
UsageConditions ==
  { <<>>,
    << <<"a", "x", LT>> >>,
    << <<"a", "x">> >>,
    << <<"a", "x", LT, LT>> >>,
    << <<"a", "x", "<>">> >>,
    << <<"a", "x", LT>>, <<"a", "x", "<>">> >>,
    << <<"zz", "x", LT>> >>,
    << <<"a", "zz", LT>> >> }

\* Calls with and without usage errors.
InitUsage ==
  \E l \in UsageLeft, r \in UsageRight, conds \in UsageConditions,
     h \in JoinTypes \cup {"outer"} :
    Start(l, r, conds, h, FALSE)

Init == InitOne \/ InitTwo \/ InitThree \/ InitTyped \/ InitUsage

\* ------------------------------------------------------------ actions

\* No copy: the name stays bound to the caller's object.
copy_alias(obj) == obj

\* DataFrame.copy() / Series.copy(): the object that holds the copy.
copy(obj) == IF obj = "df_arg" THEN "df_copy" ELSE "right_copy"

\* DataFrame.empty
empty(t) == Len(t.rows) = 0 \/ Len(t.columns) = 0

\* isinstance(t.columns, pd.MultiIndex)
IsMultiIndex(t) == \E c \in DOMAIN t.columns : Len(t.columns[c]) > 1

\* check_column(t, name) of janitor.utils: the column must exist.
check_column(t, name) ==
  IF \E c \in DOMAIN t.columns : t.columns[c] = <<name>> THEN "" ELSE "ValueError"

\* The checks of _conditional_join_preliminary_checks from `if not conditions`
\* on, on the copies.
CheckConditions(l, r, conds, h) ==
  IF conds = <<>> THEN "ValueError"
  ELSE IF \E c \in DOMAIN conds : Len(conds[c]) # 3 THEN "ValueError"
  ELSE IF \E c \in DOMAIN conds :
            \/ check_column(l, conds[c][1]) # ""
            \/ check_column(r, conds[c][2]) # ""
            \/ _check_operator(conds[c][3]) # ""
  THEN "ValueError"
  ELSE IF h \notin JoinTypes THEN "ValueError"
  ELSE ""

\* _conditional_join_preliminary_checks
PreliminaryChecks ==
  /\ pc = "start"
  /\ UNCHANGED unit
  /\ calls' = Append(calls, "checks")
  /\ UNCHANGED <<conditions, how, sort_by_appearance, eq_check, less_great,
                 result, out>>
  /\ IF empty(frames[df]) \/ IsMultiIndex(frames[df])
     THEN /\ pc' = "raised"
          /\ exc' = "ValueError"
          /\ UNCHANGED <<frames, df, right>>
     ELSE LET l == frames[df]
              r == frames[right]
              \* right.to_frame()
              f == IF r.kind = "Series" THEN [r EXCEPT !.kind = "DataFrame"] ELSE r
              e == IF r.kind = "Series" /\ r.name = "" THEN "ValueError"
                   ELSE IF empty(f) \/ IsMultiIndex(f) THEN "ValueError"
                   ELSE CheckConditions(l, f, conditions, how)
          IN  /\ frames' = [frames EXCEPT ![copy(df)] = l,
                                          ![copy(right)] =
                                             IF r.kind = "Series" /\ r.name = ""
                                             THEN r ELSE f]
              /\ df' = copy(df)
              /\ right' = copy(right)
              /\ exc' = e
              /\ pc' = IF e = "" THEN "checked" ELSE "raised"

\* The loop over the conditions in _conditional_join_compute.
TypeChecks ==
  /\ pc = "checked"
  /\ UNCHANGED unit
  /\ calls' = Append(calls, "gate")
  /\ LET l == frames[df]
         r == frames[right]
         Gate(cond) == _conditional_join_type_check(
                          l.dtypes[ColPos(l, cond[1])],
                          r.dtypes[ColPos(r, cond[2])], cond[3])
     IN  IF \E c \in DOMAIN conditions : Gate(conditions[c]) # ""
         THEN /\ pc' = "raised"
              /\ exc' = "ValueError"
              /\ UNCHANGED <<eq_check, less_great>>
         ELSE /\ pc' = "typed"
              /\ exc' = ""
              /\ eq_check' = \E c \in DOMAIN conditions : conditions[c][3] = EQ
              /\ less_great' = \E c \in DOMAIN conditions :
                    conditions[c][3] \in (less_than_join_types \cup greater_than_join_types)
  /\ UNCHANGED <<frames, df, right, conditions, how, sort_by_appearance, result, out>>

\* df.index = pd.RangeIndex(start=0, stop=len(df))
ResetIndex(t) == [t EXCEPT !.index = RangeIndex(Len(t.rows))]

\* The two tables after the re-indexing of _conditional_join_compute.
Reindexed ==
  [frames EXCEPT ![df] = ResetIndex(frames[df]),
                 ![right] = ResetIndex(frames[right])]

\* The branch of one condition taken whatever the number of conditions: the
\* matcher of the first condition alone.
SingleCondition_any ==
  /\ pc = "typed"
  /\ UNCHANGED unit
  /\ frames' = Reindexed
  /\ LET cond    == conditions[1]
         left_0  == Col(frames'[df], cond[1])
         right_0 == Col(frames'[right], cond[2])
         left_c  == IF eq_check /\ hasnans(left_0) THEN dropna(left_0) ELSE left_0
         right_c == IF eq_check /\ hasnans(right_0) THEN dropna(right_0) ELSE right_0
     IN  result' = _generic_func_cond_join(left_c, right_c, cond[3], 1)
  /\ calls' = Append(calls, "matcher")
  /\ pc' = "matched"
  /\ UNCHANGED <<df, right, conditions, how, sort_by_appearance, eq_check,
                 less_great, out, exc>>

\* The branch `if len(conditions) == 1` up to its matcher call.
SingleCondition ==
  /\ pc = "typed"
  /\ UNCHANGED unit
  /\ Len(conditions) = 1
  /\ frames' = Reindexed
  /\ LET cond    == conditions[1]
         left_0  == Col(frames'[df], cond[1])
         right_0 == Col(frames'[right], cond[2])
         left_c  == IF eq_check /\ hasnans(left_0) THEN dropna(left_0) ELSE left_0
         right_c == IF eq_check /\ hasnans(right_0) THEN dropna(right_0) ELSE right_0
     IN  result' = _generic_func_cond_join(left_c, right_c, cond[3], 1)
  /\ calls' = Append(calls, "matcher")
  /\ pc' = "matched"
  /\ UNCHANGED <<df, right, conditions, how, sort_by_appearance, eq_check,
                 less_great, out, exc>>

\* `if eq_check:` of the multiple-conditions branch
CombineEq ==
  /\ pc = "typed"
  /\ UNCHANGED unit
  /\ Len(conditions) # 1
  /\ eq_check
  /\ frames' = Reindexed
  /\ result' = _multiple_conditional_join_eq(frames'[df], frames'[right], conditions)
  /\ calls' = Append(calls, "combiner_eq")
  /\ pc' = "matched"
  /\ UNCHANGED <<df, right, conditions, how, sort_by_appearance, eq_check,
                 less_great, out, exc>>

\* `elif less_great:`
CombineLeLt ==
  /\ pc = "typed"
  /\ UNCHANGED unit
  /\ Len(conditions) # 1
  /\ ~eq_check
  /\ less_great
  /\ frames' = Reindexed
  /\ result' = _multiple_conditional_join_le_lt(frames'[df], frames'[right], conditions)
  /\ calls' = Append(calls, "combiner_le_lt")
  /\ pc' = "matched"
  /\ UNCHANGED <<df, right, conditions, how, sort_by_appearance, eq_check,
                 less_great, out, exc>>

\* `else:`
CombineNe ==
  /\ pc = "typed"
  /\ UNCHANGED unit
  /\ Len(conditions) # 1
  /\ ~eq_check
  /\ ~less_great
  /\ frames' = Reindexed
  /\ result' = _multiple_conditional_join_ne(frames'[df], frames'[right], conditions)
  /\ calls' = Append(calls, "combiner_ne")
  /\ pc' = "matched"
  /\ UNCHANGED <<df, right, conditions, how, sort_by_appearance, eq_check,
                 less_great, out, exc>>

\* The two tables after df.columns = ... and right.columns = ... of the
\* Result Assembler.
Namespaced ==
  [frames EXCEPT ![df] = Namespace(frames[df], "left"),
                 ![right] = Namespace(frames[right], "right")]

\* `if result is None: return _create_conditional_join_empty_frame(...)`
CreateEmptyFrame ==
  /\ pc = "matched"
  /\ UNCHANGED unit
  /\ result.kind = "None"
  /\ out' = _create_conditional_join_empty_frame(frames[df], frames[right], how)
  /\ frames' = Namespaced
  /\ calls' = Append(calls, "assembler_empty")
  /\ pc' = "returned"
  /\ UNCHANGED <<df, right, conditions, how, sort_by_appearance, eq_check,
                 less_great, result, exc>>

\* `return _create_conditional_join_frame(...)`
CreateFrame ==
  /\ pc = "matched"
  /\ UNCHANGED unit
  /\ result.kind # "None"
  /\ out' = _create_conditional_join_frame(frames[df], frames[right],
               result.left_index, result.right_index, how, sort_by_appearance)
  /\ frames' = Namespaced
  /\ calls' = Append(calls, "assembler")
  /\ pc' = "returned"
  /\ UNCHANGED <<df, right, conditions, how, sort_by_appearance, eq_check,
                 less_great, result, exc>>

Next ==
  \/ PreliminaryChecks
  \/ TypeChecks
  \/ SingleCondition
  \/ CombineEq
  \/ CombineLeLt
  \/ CombineNe
  \/ CreateEmptyFrame
  \/ CreateFrame

Spec == Init /\ [][Next]_vars

\* ------------------------------------------------------------ direct calls

\* The Range Matchers and _interval_ranges called on their own, on every small
\* column: the arguments are in `unit`, the call of conditional_join is idle.

UnitValues == {NaN} \cup (0..MaxKey)

\* All columns of 1 .. n values.
Columns(n) == UNION {[1..k -> UnitValues] : k \in 1..n}

\* All columns without nulls.
KeyColumns(n) == UNION {[1..k -> 0..MaxKey] : k \in 1..n}

\* All lists of 1 .. n ranges [lo, hi) with 0 <= lo < hi <= n, as the pair of
\* the list of the lo and the list of the hi.
Ranges(n) ==
  UNION {[1..k -> {p \in (0..n) \X (0..n) : p[1] < p[2]}] : k \in 1..n}

MatcherCall(func, l, r, strict, n) ==
  [NoUnit EXCEPT !.func = func, !.pc = "call",
                 !.left_c = Series(LeftIndex(Len(l)), l),
                 !.right_c = Series(RightIndex(Len(r)), r),
                 !.strict = strict, !.len_conditions = n]

RangesCall(ranges) ==
  [NoUnit EXCEPT !.func = "_interval_ranges", !.pc = "call",
                 !.indices = [k \in DOMAIN ranges |-> ranges[k][1]],
                 !.right = [k \in DOMAIN ranges |-> ranges[k][2]]]

UnitStart(u) ==
  /\ unit = u
  /\ frames = [o \in {"df_arg", "right_arg", "df_copy", "right_copy"} |-> NoFrame]
  /\ df = "df_arg"
  /\ right = "right_arg"
  /\ conditions = <<>>
  /\ how = "inner"
  /\ sort_by_appearance = FALSE
  /\ pc = "unit"
  /\ eq_check = FALSE
  /\ less_great = FALSE
  /\ result = None
  /\ out = NoReturn
  /\ exc = ""
  /\ calls = <<>>

UnitInit ==
  \/ \E l \in Columns(MaxLen), r \in Columns(MaxLen), strict \in BOOLEAN, n \in 1..2,
        func \in {"_less_than_indices", "_greater_than_indices"} :
       UnitStart(MatcherCall(func, l, r, strict, n))
  \/ \E l \in Columns(MaxLen), r \in Columns(MaxLen) :
       UnitStart(MatcherCall("_not_equal_indices", l, r, TRUE, 1))
  \/ \E l \in KeyColumns(MaxLen), r \in KeyColumns(MaxLen), n \in 1..2 :
       UnitStart(MatcherCall("_equal_indices", l, r, FALSE, n))
  \/ \E ranges \in Ranges(MaxLen) : UnitStart(RangesCall(ranges))

\* The variables of the call of conditional_join.
call == <<frames, df, right, conditions, how, sort_by_appearance, pc, eq_check,
          less_great, result, out, exc, calls>>

CallLessThan ==
  /\ pc = "unit"
  /\ unit.pc = "call"
  /\ unit.func = "_less_than_indices"
  /\ unit' = [unit EXCEPT !.pc = "return", !.ret =
       _less_than_indices(unit.left_c, unit.right_c, unit.strict, unit.len_conditions)]
  /\ UNCHANGED call

CallGreaterThan ==
  /\ pc = "unit"
  /\ unit.pc = "call"
  /\ unit.func = "_greater_than_indices"
  /\ unit' = [unit EXCEPT !.pc = "return", !.ret =
       _greater_than_indices(unit.left_c, unit.right_c, unit.strict, unit.len_conditions)]
  /\ UNCHANGED call

CallNotEqual ==
  /\ pc = "unit"
  /\ unit.pc = "call"
  /\ unit.func = "_not_equal_indices"
  /\ unit' = [unit EXCEPT !.pc = "return", !.ret =
       _not_equal_indices(unit.left_c, unit.right_c)]
  /\ UNCHANGED call

CallEqual ==
  /\ pc = "unit"
  /\ unit.pc = "call"
  /\ unit.func = "_equal_indices"
  /\ unit' = [unit EXCEPT !.pc = "return", !.ret =
       _equal_indices(unit.left_c, unit.right_c, unit.len_conditions)]
  /\ UNCHANGED call

CallIntervalRanges ==
  /\ pc = "unit"
  /\ unit.pc = "call"
  /\ unit.func = "_interval_ranges"
  /\ unit' = [unit EXCEPT !.pc = "return", !.ret =
       [kind |-> "ids", ids |-> _interval_ranges(unit.indices, unit.right)]]
  /\ UNCHANGED call

UnitNext ==
  \/ CallLessThan
  \/ CallGreaterThan
  \/ CallNotEqual
  \/ CallEqual
  \/ CallIntervalRanges

UnitSpec == UnitInit /\ [][UnitNext]_vars

\* ------------------------------------------------------------ properties

\* The caller's two tables.
ArgLeft == frames["df_arg"]

ArgRight == frames["right_arg"]

\* The value of column `name` in the row at 0-based position pos of table t.
OrigValue(t, pos, name) == t.rows[pos + 1][ColPos(t, name)]

\* Condition cond re-evaluated on the caller's values of left row l and right
\* row r.
Holds(cond, l, r) ==
  operator_map(cond[3], OrigValue(ArgLeft, l, cond[1]), OrigValue(ArgRight, r, cond[2]))

\* The pairs the matcher or combiner returned.
ResultPairs == [k \in DOMAIN result.left_index |->
                  <<result.left_index[k], result.right_index[k]>>]

\* The rows of the returned table that are a matched pair.
MatchedRows == {k \in DOMAIN out.origin :
                  out.origin[k][1] # NaN /\ out.origin[k][2] # NaN}

\* The multiset of the elements of a sequence.
SeqBag(s) == [x \in Range(s) |-> Cardinality({k \in DOMAIN s : s[k] = x})]

\* All pairs of a left and a right row position of the caller's tables.
Cross == (0..(Len(ArgLeft.rows) - 1)) \X (0..(Len(ArgRight.rows) - 1))

\* C1: every row pair the matcher or combiner returns, and every matched row
\* of the returned table, satisfies every condition of the call when the
\* condition is re-evaluated on the caller's values of the two rows.
C1_Soundness ==
  /\ pc \in {"matched", "returned"} =>
       \A k \in DOMAIN ResultPairs : \A c \in DOMAIN conditions :
          Holds(conditions[c], ResultPairs[k][1], ResultPairs[k][2])
  /\ pc = "returned" =>
       \A k \in MatchedRows : \A c \in DOMAIN conditions :
          Holds(conditions[c], out.origin[k][1], out.origin[k][2])

\* A call of several conditions, the last of them `!=`, has returned two
\* matched rows.
C1_Witness ==
  /\ pc = "returned"
  /\ Len(conditions) >= 2
  /\ conditions[Len(conditions)][3] = NE
  /\ Cardinality(MatchedRows) >= 2

\* A sequence without repeated elements.
NoDuplicates(s) == \A i, j \in DOMAIN s : s[i] = s[j] => i = j

\* No condition reads a null in left row l or right row r.
NoNullsIn(l, r) ==
  \A c \in DOMAIN conditions :
     /\ OrigValue(ArgLeft, l, conditions[c][1]) # NaN
     /\ OrigValue(ArgRight, r, conditions[c][2]) # NaN

\* The cross product filtered by the conjunction of the conditions, the
\* comparisons evaluated as the operators evaluate them (a null differs from
\* every value).
CrossFilter == {p \in Cross : \A c \in DOMAIN conditions : Holds(conditions[c], p[1], p[2])}

\* The same filter when a null satisfies no comparison at all.
CrossFilterNoNulls == {p \in CrossFilter : NoNullsIn(p[1], p[2])}

\* C2: for how = 'inner', the returned pairs hold no pair twice, and as a set
\* they are the cross product of the two tables filtered by the conjunction of
\* the conditions (under either reading of a comparison with a null).
C2_Complete ==
  (pc = "returned" /\ how = "inner") =>
     /\ NoDuplicates(out.origin)
     /\ \/ Range(out.origin) = CrossFilter
        \/ Range(out.origin) = CrossFilterNoNulls

\* C2 where the columns of the conditions hold no null: the returned pairs are
\* exactly the filtered cross product.
C2_CompleteWithoutNulls ==
  (pc = "returned" /\ how = "inner" /\ \A p \in Cross : NoNullsIn(p[1], p[2])) =>
     /\ NoDuplicates(out.origin)
     /\ Range(out.origin) = CrossFilter

\* C3: no returned pair has a null in a column that a condition reads, on
\* either side.
C3_NullsNeverMatch ==
  /\ pc \in {"matched", "returned"} =>
       \A k \in DOMAIN ResultPairs : NoNullsIn(ResultPairs[k][1], ResultPairs[k][2])
  /\ pc = "returned" =>
       \A k \in MatchedRows : NoNullsIn(out.origin[k][1], out.origin[k][2])

\* C3 for a call of one condition, where the Range Matcher alone decides.
C3_SingleCondition ==
  (pc \in {"matched", "returned"} /\ Len(conditions) = 1) =>
     \A k \in DOMAIN ResultPairs : NoNullsIn(ResultPairs[k][1], ResultPairs[k][2])

\* The rows of the returned table made of the pair o of row positions (NaN for
\* a null-filled side).
RowsOfOrigin(o) == {k \in DOMAIN out.origin : out.origin[k] = o}

\* The values a returned row made of the pair o must hold: the caller's values
\* of the two rows, nulls for a null-filled side.
ExpectedRow(o) ==
  (IF o[1] = NaN THEN Nulls(ArgLeft) ELSE ArgLeft.rows[o[1] + 1])
  \o (IF o[2] = NaN THEN Nulls(ArgRight) ELSE ArgRight.rows[o[2] + 1])

\* The matched rows of the returned table, in its order.
MatchedOrigins ==
  Compress(out.origin, [k \in DOMAIN out.origin |-> k \in MatchedRows])

\* The returned table holds one row per returned pair, and every row holds the
\* caller's values of the rows it is made of.
OneRowPerPair ==
  /\ SeqBag(MatchedOrigins) = SeqBag(ResultPairs)
  /\ \A k \in DOMAIN out.origin : out.frame.rows[k] = ExpectedRow(out.origin[k])

\* Side 1 (left) or 2 (right) is preserved: each of its rows that is in no
\* returned pair appears exactly once, null-filled on the other side, each
\* other row only in its matched rows, and no row is null on the preserved side.
Preserved(side, t) ==
  /\ \A k \in DOMAIN out.origin : out.origin[k][side] # NaN
  /\ \A pos \in 0..(Len(t.rows) - 1) :
       LET alone == IF side = 1 THEN <<pos, NaN>> ELSE <<NaN, pos>>
       IN  IF \E k \in DOMAIN ResultPairs : ResultPairs[k][side] = pos
           THEN RowsOfOrigin(alone) = {}
           ELSE Cardinality(RowsOfOrigin(alone)) = 1

\* C4: with how = 'left' the returned table holds one row per matched pair and
\* every left row without a match exactly once with all right columns null;
\* with how = 'right', symmetrically, every right row without a match exactly
\* once with all left columns null.
C4_OuterJoinsKeepRows ==
  /\ (pc = "returned" /\ how = "left") => (OneRowPerPair /\ Preserved(1, ArgLeft))
  /\ (pc = "returned" /\ how = "right") => (OneRowPerPair /\ Preserved(2, ArgRight))

\* A right join has returned a matched row and a right row without a match.
C4_Witness ==
  /\ pc = "returned"
  /\ how = "right"
  /\ MatchedRows # {}
  /\ \E k \in DOMAIN out.origin : out.origin[k][1] = NaN

\* The columns of the two caller's tables, namespaced 'left' and 'right'.
NamespacedColumns ==
  [c \in DOMAIN ArgLeft.columns |-> <<"left">> \o ArgLeft.columns[c]]
  \o [c \in DOMAIN ArgRight.columns |-> <<"right">> \o ArgRight.columns[c]]

\* C5: a call without a matching pair returns a table and raises nothing. The
\* table has every left and right column, namespaced; with how = 'inner' it
\* has no row and every column keeps its original type; with how = 'left'
\* ('right') it is the left (right) table, its columns of their original
\* type, with the columns of the other side entirely null.
C5_NoMatch ==
  (pc = "returned" /\ result = None) =>
     /\ exc = ""
     /\ out.frame.kind = "DataFrame"
     /\ out.frame.columns = NamespacedColumns
     /\ how = "inner" =>
          /\ out.frame.rows = <<>>
          /\ out.frame.dtypes = ArgLeft.dtypes \o ArgRight.dtypes
     /\ how = "left" =>
          /\ out.frame.rows = [k \in DOMAIN ArgLeft.rows |-> ArgLeft.rows[k] \o Nulls(ArgRight)]
          /\ SubSeq(out.frame.dtypes, 1, Len(ArgLeft.dtypes)) = ArgLeft.dtypes
     /\ how = "right" =>
          /\ out.frame.rows = [k \in DOMAIN ArgRight.rows |-> Nulls(ArgLeft) \o ArgRight.rows[k]]
          /\ SubSeq(out.frame.dtypes, Len(ArgLeft.dtypes) + 1, Len(out.frame.dtypes))
               = ArgRight.dtypes

\* An inner join of integer columns has returned without a match.
C5_Witness ==
  /\ pc = "returned"
  /\ result = None
  /\ how = "inner"
  /\ \E c \in DOMAIN ArgLeft.dtypes : ArgLeft.dtypes[c] = "integer"
  /\ \E c \in DOMAIN ArgRight.dtypes : ArgRight.dtypes[c] = "integer"

\* Pair p is not after pair q in lexicographic order.
LexLeq(p, q) == p[1] < q[1] \/ (p[1] = q[1] /\ p[2] <= q[2])

\* The pair with its two positions exchanged.
Swap(p) == <<p[2], p[1]>>

\* The sequence of pairs s is in ascending lexicographic order.
Ascending(s) == \A i, j \in DOMAIN s : i < j => LexLeq(s[i], s[j])

\* C6: with sort_by_appearance = True the matched rows of the returned table
\* are in ascending lexicographic order of (left position, right position),
\* for every `how`.
C6_AppearanceOrder ==
  (pc = "returned" /\ sort_by_appearance) => Ascending(MatchedOrigins)

\* The order the rows are returned in with sort_by_appearance = True (C6 by
\* `how`): ascending lexicographic order of (left position, right position)
\* for how = 'inner' and how = 'left', of (right position, left position) for
\* how = 'right'. A row without a match has its place by the position of its
\* preserved side.
C6_AppearanceOrderByHow ==
  (pc = "returned" /\ sort_by_appearance) =>
     /\ how \in {"inner", "left"} => (Ascending(out.origin) /\ Ascending(MatchedOrigins))
     /\ how = "right" =>
          /\ Ascending([k \in DOMAIN out.origin |-> Swap(out.origin[k])])
          /\ Ascending([k \in DOMAIN MatchedOrigins |-> Swap(MatchedOrigins[k])])

\* A right join with sort_by_appearance = True has returned two matched rows
\* that the matcher produced in another order than the one they are returned
\* in.
C6_RightJoinReordered ==
  /\ pc = "returned"
  /\ sort_by_appearance
  /\ how = "right"
  /\ Len(MatchedOrigins) >= 2
  /\ MatchedOrigins # ResultPairs

\* The table the Result Assembler makes of the same pairs with the other value
\* of sort_by_appearance.
OtherOrder ==
  _create_conditional_join_frame(frames[df], frames[right], result.left_index,
                                 result.right_index, how, ~sort_by_appearance)

\* C7: the table returned with sort_by_appearance = True and the one returned
\* with sort_by_appearance = False, for the same tables, conditions and `how`,
\* hold the same rows with the same multiplicities.
C7_SameRows ==
  (pc = "returned" /\ result # None) =>
     /\ SeqBag(out.frame.rows) = SeqBag(OtherOrder.frame.rows)
     /\ SeqBag(out.origin) = SeqBag(OtherOrder.origin)
     /\ out.frame.dtypes = OtherOrder.frame.dtypes

\* A call has returned rows whose order depends on sort_by_appearance.
C7_Witness ==
  /\ pc = "returned"
  /\ result # None
  /\ sort_by_appearance
  /\ out.frame.rows # OtherOrder.frame.rows

\* C8: no step of a call changes the caller's left or right table: row index,
\* column labels, types and values stay as they were, whether the call returns
\* or raises.
C8_InputsNotMutated ==
  [][/\ frames'["df_arg"] = frames["df_arg"]
     /\ frames'["right_arg"] = frames["right_arg"]]_vars

\* A call has returned after re-indexing and namespacing the tables it works
\* on, which are not the caller's.
C8_Witness ==
  /\ pc = "returned"
  /\ df # "df_arg"
  /\ right # "right_arg"
  /\ frames[df].index # ArgLeft.index
  /\ frames[df].columns # ArgLeft.columns
  /\ frames[right].index # ArgRight.index
  /\ frames[right].columns # ArgRight.columns

\* The call has one of the usage errors: an empty table, multi-level columns,
\* an unnamed Series as right, no condition, a condition that has not three
\* elements, an operator that is none of the six, a `how` that is none of the
\* three.
UsageError ==
  \/ ArgLeft.rows = <<>>
  \/ ArgRight.rows = <<>>
  \/ \E c \in DOMAIN ArgLeft.columns : Len(ArgLeft.columns[c]) > 1
  \/ \E c \in DOMAIN ArgRight.columns : Len(ArgRight.columns[c]) > 1
  \/ (ArgRight.kind = "Series" /\ ArgRight.name = "")
  \/ conditions = <<>>
  \/ \E c \in DOMAIN conditions : Len(conditions[c]) # 3
  \/ \E c \in DOMAIN conditions :
        Len(conditions[c]) = 3 /\ conditions[c][3] \notin {"==", "!=", "<", "<=", ">", ">="}
  \/ how \notin {"inner", "left", "right"}

\* Both tables have the two columns of every condition.
ColumnsExist ==
  \A c \in DOMAIN conditions :
     /\ \E i \in DOMAIN ArgLeft.columns : ArgLeft.columns[i] = <<conditions[c][1]>>
     /\ \E i \in DOMAIN ArgRight.columns : ArgRight.columns[i] = <<conditions[c][2]>>

\* The two columns of the condition are of the same one of the five families
\* and, if it is string or categorical, the operator is `==`.
SameFamily(cond) ==
  LET ld == ArgLeft.dtypes[ColPos(ArgLeft, cond[1])]
      rd == ArgRight.dtypes[ColPos(ArgRight, cond[2])]
  IN  /\ ld \in {"datetime", "integer", "float", "string", "categorical"}
      /\ rd = ld
      /\ ld \in {"string", "categorical"} => cond[3] = "=="

\* The call has no usage error and a condition that fails the type gate.
GateError ==
  /\ ~UsageError
  /\ ColumnsExist
  /\ \E c \in DOMAIN conditions : ~SameFamily(conditions[c])

\* C9: a call with a usage error ends in a ValueError of the preliminary
\* checks, a call with a condition that fails the type gate in a ValueError of
\* the gate; in neither does a Range Matcher, a combiner or the Result
\* Assembler run, and no table is returned.
C9_FailFast ==
  (UsageError \/ GateError) =>
     /\ pc \in {"start", "checked", "raised"}
     /\ UsageError => pc # "checked"
     /\ pc = "raised" => exc = "ValueError"
     /\ \A k \in DOMAIN calls : calls[k] \in {"checks", "gate"}
     /\ result = None
     /\ out = NoReturn

\* A call of two conditions, the first a good one, the second failing the
\* type gate, has raised before any matcher ran.
C9_Witness ==
  /\ pc = "raised"
  /\ exc = "ValueError"
  /\ GateError
  /\ Len(conditions) = 2
  /\ SameFamily(conditions[1])
  /\ calls = <<"checks", "gate">>

Satisfies(op, a, b) ==
  /\ a # NaN
  /\ b # NaN
  /\ \/ op = "<" /\ a < b
     \/ op = "<=" /\ a <= b
     \/ op = ">" /\ a > b
     \/ op = ">=" /\ a >= b
     \/ op = "==" /\ a = b
     \/ op = "!=" /\ a # b

\* The value of the row of Series s with label lab.
ValueAt(s, lab) == s.values[CHOOSE k \in DOMAIN s.index : s.index[k] = lab]

\* The operator of a direct call of _less_than_indices or _greater_than_indices.
UnitOp ==
  IF unit.func = "_less_than_indices"
  THEN (IF unit.strict THEN "<" ELSE "<=")
  ELSE (IF unit.strict THEN ">" ELSE ">=")

\* The labels of the non-null left rows with at least one satisfying right value.
UnitMatching ==
  {unit.left_c.index[k] : k \in {i \in DOMAIN unit.left_c.values :
      \E j \in DOMAIN unit.right_c.values :
         Satisfies(UnitOp, unit.left_c.values[i], unit.right_c.values[j])}}

\* The values of the right rows in the order of the returned right_index.
UnitSorted == [p \in DOMAIN unit.ret.right_index |->
                 ValueAt(unit.right_c, unit.ret.right_index[p])]

\* The range [lo, hi) returned for the k-th returned left row.
UnitLo(k) ==
  IF unit.func = "_less_than_indices" THEN unit.ret.search_indices[k]
  ELSE unit.ret.indices[k]

UnitHi(k) ==
  IF unit.func = "_less_than_indices" THEN unit.ret.indices[k]
  ELSE unit.ret.search_indices[k]

\* The returned right_index is the right column without its nulls, sorted
\* ascending.
UnitRightSorted ==
  /\ NoDuplicates(unit.ret.right_index)
  /\ Range(unit.ret.right_index) =
       {unit.right_c.index[j] : j \in {i \in DOMAIN unit.right_c.values :
                                         unit.right_c.values[i] # NaN}}
  /\ \A p \in 1..(Len(UnitSorted) - 1) : UnitSorted[p] <= UnitSorted[p + 1]

\* The range of the k-th returned left row is not empty and holds exactly the
\* positions of the sorted right column whose value satisfies the operator.
UnitRangeExact(k) ==
  /\ UnitLo(k) < UnitHi(k)
  /\ \A p \in 0..(Len(UnitSorted) - 1) :
       (UnitLo(k) <= p /\ p < UnitHi(k)) <=>
       Satisfies(UnitOp, ValueAt(unit.left_c, unit.ret.left_index[k]), UnitSorted[p + 1])
  /\ unit.func = "_less_than_indices" => UnitHi(k) = Len(UnitSorted)
  /\ unit.func = "_greater_than_indices" => UnitLo(k) = 0

\* A direct call of _less_than_indices or _greater_than_indices with more
\* conditions remaining has returned.
RangeModeReturned ==
  /\ unit.pc = "return"
  /\ unit.func \in {"_less_than_indices", "_greater_than_indices"}
  /\ unit.len_conditions > 1

\* C11: _less_than_indices and _greater_than_indices called with more
\* conditions remaining return exactly the non-null left rows that have a
\* satisfying right value, the right column without nulls sorted ascending,
\* and for every returned left row a non-empty range [lo, hi) that holds
\* exactly the positions whose value satisfies the operator (ties left out
\* when strict): [insertion point, len(right)) for less_than, [0, insertion
\* point) for greater_than.
C11_RangeExact ==
  RangeModeReturned =>
     /\ NoDuplicates(unit.ret.left_index)
     /\ Range(unit.ret.left_index) = UnitMatching
     /\ unit.ret # None =>
          /\ unit.ret.kind = "bounds"
          /\ UnitRightSorted
          /\ \A k \in DOMAIN unit.ret.left_index : UnitRangeExact(k)

\* A strict greater_than in range mode has returned two left rows, one of them
\* with a tie in the right column, which holds a null and is not sorted.
C11_Witness ==
  /\ RangeModeReturned
  /\ unit.func = "_greater_than_indices"
  /\ unit.strict
  /\ Len(unit.ret.left_index) >= 2
  /\ hasnans(unit.right_c)
  /\ ~is_monotonic_increasing(dropna(unit.right_c))
  /\ \E k \in DOMAIN unit.ret.left_index :
        ValueAt(unit.left_c, unit.ret.left_index[k]) \in Range(unit.right_c.values)

\* ------------------------------------------------------------ Interval Expansion

\* The runs lo[i], lo[i] + 1, ..., hi[i] - 1, one after the other.
Runs(lo, hi) ==
  concatenate([i \in DOMAIN lo |-> [j \in 1..(hi[i] - lo[i]) |-> lo[i] + j - 1]])

\* The sum of the elements of s.
RECURSIVE Sum(_)
Sum(s) == IF s = <<>> THEN 0 ELSE Head(s) + Sum(Tail(s))

\* The pairs <<i, ids[k]>> made of ids and of the row numbers 1, 2, ... each
\* repeated hi[i] - lo[i] times.
Paired(lo, hi, ids) ==
  LET rep == repeat([i \in DOMAIN lo |-> i], [i \in DOMAIN lo |-> hi[i] - lo[i]])
  IN  [k \in DOMAIN ids |-> <<rep[k], ids[k]>>]

\* The pairs a direct call of a matcher returned.
UnitPairs == [k \in DOMAIN unit.ret.left_index |->
                <<unit.ret.left_index[k], unit.ret.right_index[k]>>]

\* The pairs of a left and a right label whose values satisfy the operator.
UnitSatisfying(op) ==
  {<<unit.left_c.index[i], unit.right_c.index[j]>> :
     <<i, j>> \in {q \in (DOMAIN unit.left_c.values) \X (DOMAIN unit.right_c.values) :
                     Satisfies(op, unit.left_c.values[q[1]], unit.right_c.values[q[2]])}}

\* C12: _interval_ranges(lo, hi), called with at least one range and lo[i] <
\* hi[i] for every i, returns the runs lo[i] .. hi[i] - 1 one after the other;
\* its length is the sum of the hi[i] - lo[i], and paired with the rows
\* repeated hi[i] - lo[i] times it gives each (row, position in its range)
\* exactly once. The ranges less_than and greater_than compute are never empty
\* and at least one, and the pairs they expand them to are exactly the
\* satisfying pairs, each once.
C12_IntervalRanges ==
  /\ (unit.pc = "return" /\ unit.func = "_interval_ranges") =>
        /\ unit.ret.ids = Runs(unit.indices, unit.right)
        /\ Len(unit.ret.ids) =
             Sum([i \in DOMAIN unit.indices |-> unit.right[i] - unit.indices[i]])
        /\ NoDuplicates(Paired(unit.indices, unit.right, unit.ret.ids))
        /\ Range(Paired(unit.indices, unit.right, unit.ret.ids)) =
             {q \in (DOMAIN unit.indices) \X (0..MaxLen) :
                unit.indices[q[1]] <= q[2] /\ q[2] < unit.right[q[1]]}
  /\ (RangeModeReturned /\ unit.ret # None) =>
        /\ Len(unit.ret.search_indices) >= 1
        /\ Len(unit.ret.indices) = Len(unit.ret.search_indices)
        /\ \A k \in DOMAIN unit.ret.search_indices : UnitLo(k) < UnitHi(k)
  /\ (unit.pc = "return" /\ unit.len_conditions = 1
      /\ unit.func \in {"_less_than_indices", "_greater_than_indices"}) =>
        /\ NoDuplicates(UnitPairs)
        /\ Range(UnitPairs) = UnitSatisfying(UnitOp)

\* _interval_ranges has returned the runs of three ranges that do not follow
\* each other.
C12_Witness ==
  /\ unit.pc = "return"
  /\ unit.func = "_interval_ranges"
  /\ Len(unit.indices) = 3
  /\ unit.indices[2] # unit.right[1]
  /\ unit.indices[3] # unit.right[2]
  /\ Len(unit.ret.ids) >= 4

\* ------------------------------------------------------------ combiners

\* The `==` conditions hold as a key on left row l and right row r of the
\* caller's tables: no key value is null and the key values are equal.
KeyHolds(l, r) ==
  \A c \in DOMAIN conditions :
     IsEq(conditions[c]) =>
        /\ OrigValue(ArgLeft, l, conditions[c][1]) # NaN
        /\ OrigValue(ArgRight, r, conditions[c][2]) # NaN
        /\ OrigValue(ArgLeft, l, conditions[c][1]) =
             OrigValue(ArgRight, r, conditions[c][2])

\* The other conditions, compared on the caller's values of the two rows, all
\* hold.
RestHolds(l, r) ==
  \A c \in DOMAIN conditions :
     IsNotEq(conditions[c]) => Holds(conditions[c], l, r)

\* C13: the equality-anchored combiner returns, by their original row
\* identifiers, exactly the pairs of rows without a null key whose composite
\* keys are equal and on whose own values every other condition holds, each
\* pair once, and None when there is no such pair.
C13_EqCombiner ==
  (pc \in {"matched", "returned"} /\ eq_check /\ Len(conditions) >= 2) =>
     /\ NoDuplicates(ResultPairs)
     /\ Range(ResultPairs) = {q \in Cross : KeyHolds(q[1], q[2]) /\ RestHolds(q[1], q[2])}
     /\ (result.kind = "None") = (ResultPairs = <<>>)

\* The combiner has matched the second left row behind a row with a null
\* key, under a `==` and another condition.
C13_Witness ==
  /\ pc = "matched"
  /\ eq_check
  /\ Len(conditions) = 2
  /\ \E c \in DOMAIN conditions : IsNotEq(conditions[c])
  /\ \E c \in DOMAIN conditions :
        IsEq(conditions[c]) /\ OrigValue(ArgLeft, 0, conditions[c][1]) = NaN
  /\ ResultPairs = <<(<<1, 0>>)>>

\* ------------------------------------------------------------ strategy selection

\* The operators of the call's conditions.
OpsOf == {conditions[c][3] : c \in DOMAIN conditions}

IsCombiner(name) == name \in {"combiner_eq", "combiner_le_lt", "combiner_ne"}

IsMatcher(name) == name = "matcher"

\* The combiner the precedence selects: equality before ordering before
\* not-equal.
Selected ==
  IF "==" \in OpsOf THEN "combiner_eq"
  ELSE IF OpsOf \cap {"<", "<=", ">", ">="} # {} THEN "combiner_le_lt"
  ELSE "combiner_ne"

\* The Range Matcher of operator op, called for a final result on the two
\* columns of the only condition.
MatcherOf(op, left_c, right_c) ==
  CASE op = "<"  -> _less_than_indices(left_c, right_c, TRUE, 1)
    [] op = "<=" -> _less_than_indices(left_c, right_c, FALSE, 1)
    [] op = ">"  -> _greater_than_indices(left_c, right_c, TRUE, 1)
    [] op = ">=" -> _greater_than_indices(left_c, right_c, FALSE, 1)
    [] op = "!=" -> _not_equal_indices(left_c, right_c)
    [] op = "==" -> _equal_indices(NoNulls(left_c), NoNulls(right_c), 1)

\* C14: a call of two or more conditions runs exactly one combiner and calls
\* no matcher itself: the equality-anchored one iff some condition is ==,
\* else the ordering-anchored one iff some condition is <, <=, > or >=, else
\* the not-equal-anchored one. A call of one condition runs no combiner and
\* calls the matcher of its operator once. Before the selection, and in a
\* call that raised, neither has run.
C14_Selection ==
  /\ (pc \in {"matched", "returned"} /\ Len(conditions) >= 2) =>
        /\ SelectSeq(calls, IsCombiner) = <<Selected>>
        /\ SelectSeq(calls, IsMatcher) = <<>>
  /\ (pc \in {"matched", "returned"} /\ Len(conditions) = 1) =>
        /\ SelectSeq(calls, IsCombiner) = <<>>
        /\ SelectSeq(calls, IsMatcher) = <<"matcher">>
  /\ (pc = "matched" /\ Len(conditions) = 1) =>
        result = MatcherOf(conditions[1][3],
                           Col(frames[df], conditions[1][1]),
                           Col(frames[right], conditions[1][2]))
  /\ pc \notin {"matched", "returned"} =>
        /\ SelectSeq(calls, IsCombiner) = <<>>
        /\ SelectSeq(calls, IsMatcher) = <<>>

\* The ordering-anchored combiner has run on a `!=` and an ordering condition
\* and found a pair.
C14_Witness ==
  /\ pc = "matched"
  /\ OpsOf = {"!=", ">="}
  /\ conditions[1][3] = "!="
  /\ SelectSeq(calls, IsCombiner) = <<"combiner_le_lt">>
  /\ result.kind # "None"

\* ------------------------------------------------------------ anchor choice

\* The ordering-anchored combiner has run and returned pairs: it has applied
\* its first condition and all the others.
LeLtRan ==
  /\ pc \in {"matched", "returned"}
  /\ "combiner_le_lt" \in Range(calls)
  /\ result.kind # "None"

\* The positions of the ordering conditions in the caller's order.
OrderingAt == {c \in DOMAIN conditions : conditions[c][3] \in {"<", "<=", ">", ">="}}

\* The earliest ordering condition in the caller's order.
Earliest == conditions[CHOOSE c \in OrderingAt : \A d \in OrderingAt : c <= d]

\* The condition the combiner applies first, and the ones it applies after it.
Anchor == Head(Reordered(conditions))

AfterAnchor == Tail(Reordered(conditions))

\* s without its element at position i.
Without(s, i) == [k \in 1..(Len(s) - 1) |-> IF k < i THEN s[k] ELSE s[k + 1]]

\* C15: the condition the ordering-anchored combiner applies first is an
\* ordering condition, never `!=`; it is the earliest ordering condition in
\* the caller's order, and the other conditions follow in the caller's order.
C15_AnchorEarliest ==
  LeLtRan =>
     /\ Anchor[3] \in {"<", "<=", ">", ">="}
     /\ Anchor = Earliest
     /\ \E i \in DOMAIN conditions :
           conditions[i] = Anchor /\ AfterAnchor = Without(conditions, i)

\* What holds of the anchor: it is an ordering condition, the other
\* conditions follow in the caller's order, and it is the earliest ordering
\* condition when the caller's first condition is an ordering condition or
\* only one ordering condition is given.
C15_AnchorIsOrdering ==
  LeLtRan =>
     /\ Anchor[3] \in {"<", "<=", ">", ">="}
     /\ \E i \in DOMAIN conditions :
           conditions[i] = Anchor /\ AfterAnchor = Without(conditions, i)
     /\ (1 \in OrderingAt \/ Cardinality({conditions[c] : c \in OrderingAt}) = 1) =>
           Anchor = Earliest

\* The combiner has run on a `!=` condition followed by two different
\* ordering conditions: the anchor is the later of the two.
C15_LastOrderingAnchors ==
  /\ LeLtRan
  /\ pc = "matched"
  /\ OrderingAt = {2, 3}
  /\ conditions[2] # conditions[3]
  /\ Anchor = conditions[3]

\* ------------------------------------------------------------ not_equal

\* The pairs of a matcher's final result, none for None.
PairsOf(r) == [k \in DOMAIN r.left_index |-> <<r.left_index[k], r.right_index[k]>>]

\* The strict less_than and the strict greater_than pairs of the two columns
\* of the direct call.
UnitLess == PairsOf(_less_than_indices(unit.left_c, unit.right_c, TRUE, 1))

UnitGreater == PairsOf(_greater_than_indices(unit.left_c, unit.right_c, TRUE, 1))

\* C16: not_equal returns the strict less_than pairs followed by the strict
\* greater_than pairs of the same two columns; the two have no pair in
\* common, so no pair is returned twice; the pairs are those whose values
\* differ, and not_equal returns None exactly when both are empty.
C16_NotEqual ==
  (unit.pc = "return" /\ unit.func = "_not_equal_indices") =>
     /\ UnitPairs = UnitLess \o UnitGreater
     /\ Range(UnitLess) \cap Range(UnitGreater) = {}
     /\ NoDuplicates(UnitPairs)
     /\ Range(UnitPairs) = UnitSatisfying("!=")
     /\ (unit.ret = None) = (UnitLess = <<>> /\ UnitGreater = <<>>)
     /\ unit.ret # None => unit.ret.kind = "pairs"

\* not_equal has returned less_than and greater_than pairs of two columns
\* that both hold a null and a pair of equal values.
C16_Witness ==
  /\ unit.pc = "return"
  /\ unit.func = "_not_equal_indices"
  /\ UnitLess # <<>>
  /\ UnitGreater # <<>>
  /\ NaN \in Range(unit.left_c.values)
  /\ NaN \in Range(unit.right_c.values)
  /\ \E i \in DOMAIN unit.left_c.values :
        unit.left_c.values[i] # NaN /\ unit.left_c.values[i] \in Range(unit.right_c.values)

\* ------------------------------------------------------------ None

\* C17: the matcher or combiner of a call returns None exactly when no pair
\* of rows satisfies the conditions (a null satisfying none); the pairs it
\* returns otherwise are as many left as right ids, and at least one.
C17_NoneMeansNoMatch ==
  pc \in {"matched", "returned"} =>
     /\ (result.kind = "None") = (CrossFilterNoNulls = {})
     /\ result.kind # "None" =>
          /\ Len(result.left_index) = Len(result.right_index)
          /\ Len(result.left_index) >= 1

\* What holds in a call: None is returned only when no pair of rows
\* satisfies the conditions, and exactly then when the columns of the
\* conditions hold no null; returned pairs are as many left as right ids, and
\* at least one.
C17_NoneOnlyWithoutMatch ==
  pc \in {"matched", "returned"} =>
     /\ result.kind = "None" => CrossFilterNoNulls = {}
     /\ (\A p \in Cross : NoNullsIn(p[1], p[2])) =>
          (result.kind = "None") = (CrossFilter = {})
     /\ result.kind # "None" =>
          /\ Len(result.left_index) = Len(result.right_index)
          /\ Len(result.left_index) >= 1

\* The operator of the matcher of the direct call.
UnitMatcherOp ==
  CASE unit.func = "_less_than_indices"    -> (IF unit.strict THEN "<" ELSE "<=")
    [] unit.func = "_greater_than_indices" -> (IF unit.strict THEN ">" ELSE ">=")
    [] unit.func = "_not_equal_indices"    -> "!="
    [] unit.func = "_equal_indices"        -> "=="

\* What holds of the Range Matchers called directly: each returns None
\* exactly when no pair of values satisfies its operator, and otherwise as
\* many left as right ids, at least one.
C17_MatcherNone ==
  (unit.pc = "return" /\ unit.func # "_interval_ranges") =>
     /\ (unit.ret = None) = (UnitSatisfying(UnitMatcherOp) = {})
     /\ unit.ret # None =>
          /\ Len(unit.ret.left_index) >= 1
          /\ unit.len_conditions = 1 =>
               Len(unit.ret.left_index) = Len(unit.ret.right_index)

\* ------------------------------------------------------------ condition order

\* The orders a list of n conditions can be given in.
Orders(n) == {f \in [1..n -> 1..n] : \A i, j \in 1..n : f[i] = f[j] => i = j}

\* The conditions of the call in the order f.
Permuted(f) == [k \in DOMAIN conditions |-> conditions[f[k]]]

\* The pairs the combiner of the call's strategy returns for the two tables
\* of the call and the conditions conds, none for None.
Combined(conds) ==
  PairsOf(IF eq_check
          THEN _multiple_conditional_join_eq(frames[df], frames[right], conds)
          ELSE IF less_great
          THEN _multiple_conditional_join_le_lt(frames[df], frames[right], conds)
          ELSE _multiple_conditional_join_ne(frames[df], frames[right], conds))

\* C18: the set of matched pairs is the same for every order the conditions
\* of a call are given in, nulls in the columns of the conditions or not.
C18_OrderIndependent ==
  (pc = "matched" /\ Len(conditions) >= 2) =>
     \A f \in Orders(Len(conditions)) :
        Range(Combined(Permuted(f))) = Range(ResultPairs)

\* What holds: on columns without nulls the set of matched pairs is the same
\* for every order of the conditions.
C18_OrderWithoutNulls ==
  (pc = "matched" /\ Len(conditions) >= 2 /\ \A p \in Cross : NoNullsIn(p[1], p[2])) =>
     \A f \in Orders(Len(conditions)) :
        Range(Combined(Permuted(f))) = Range(ResultPairs)

\* Two `!=` conditions found no pair in the order given and find one in the
\* other order.
C18_OrderChangesPairs ==
  /\ pc = "matched"
  /\ Len(conditions) = 2
  /\ OpsOf = {"!="}
  /\ result.kind = "None"
  /\ Combined(<<conditions[2], conditions[1]>>) # <<>>

====
